---- MODULE Spec2Model ----
(***************************************************************************)
(* Model of the run loop of pyserini/search/jass/__main__.py: the topics   *)
(* of a query iterator are searched one at a time (single mode) or in      *)
(* batches (batch mode) and the results are written to an output writer.   *)
(***************************************************************************)
EXTENDS Integers, Sequences, FiniteSets, TLC

\* ------------------------------------------------------------------ bounds
MaxTopics == 5
MaxBatchSize == 4
MaxThreads == 2
MaxHits == 2

\* default of --rho (how many postings to process)
DefaultRho == 1000000000

\* ------------------------------------------------------------- topic ids
\* A topic id is an integer or a string (the keys of the topics dict).
IntId(n) == [kind |-> "int", v |-> n]
StrId(s) == [kind |-> "str", v |-> s]

\* Variant of the conversion: the id as it is.
StrIdentity(id) == id

\* str(topic_id): a string stays as it is, an integer becomes its decimal form.
Str(id) == IF id.kind = "str" THEN id ELSE StrId(ToString(id.v))

\* The keys a topics dict is built from, each with its query text.
TopicIds == {IntId(1), IntId(2), IntId(30), StrId("1"), StrId("q")}

TopicText(id) ==
    CASE id = IntId(1) -> "alpha"
      [] id = IntId(2) -> "beta"
      [] id = IntId(30) -> "gamma"
      [] id = StrId("1") -> "delta"
      [] id = StrId("q") -> "alpha"

\* --------------------------------------------------------------- helpers
Range(s) == {s[i] : i \in DOMAIN s}

Min(a, b) == IF a <= b THEN a ELSE b

\* The injective sequences over S of length at most n.
InjectiveSeqs(S, n) ==
    UNION {{s \in [1..k -> S] : \A i, j \in 1..k : s[i] = s[j] => i = j} : k \in 0..n}

\* ------------------------------------------------------- search backend
\* The ranked documents the index holds for a query text, best first.
Ranking(text) ==
    CASE text = "alpha" -> <<11, 12, 13>>
      [] text = "beta" -> <<21>>
      [] text = "gamma" -> <<>>
      [] text = "delta" -> <<41, 42>>

\* searcher.search(text, k, rho): at most k hits, deterministic.
Search(text, k, rho) == SubSeq(Ranking(text), 1, Min(k, Len(Ranking(text))))

\* A mapping (a dict) is the sequence of its (key, value) items in iteration
\* order, no key twice. Its keys, and the value it holds under a key:
Keys(mapping) == {mapping[i][1] : i \in DOMAIN mapping}

Lookup(mapping, key) ==
    mapping[CHOOSE i \in DOMAIN mapping : mapping[i][1] = key][2]

\* The mapping as a function from its keys to its values.
Entries(mapping) == [key \in Keys(mapping) |-> Lookup(mapping, key)]

\* The mappings searcher.batch_search(texts, ids, k, rho, threads) may return:
\* one entry per id of the batch, holding the hits of a query submitted under
\* that id, the keys in any order.
BatchSearch(texts, ids, k, rho, threads) ==
    LET K == Range(ids)
        n == Cardinality(K)
        orders == {o \in [1..n -> K] : \A i, j \in 1..n : o[i] = o[j] => i = j}
        picks == {p \in [K -> DOMAIN ids] : \A key \in K : ids[p[key]] = key}
    IN  {[i \in 1..n |-> <<o[i], Search(texts[p[o[i]]], k, rho)>>] :
            o \in orders, p \in picks}

\* ------------------------------------------------------------------ state
VARIABLES
    args,             \* the parsed command line: batch_size, threads, hits, rho
    order,            \* the (topic_id, text) pairs query_iterator yields, in order
    topics,           \* query_iterator.topics: topic id -> text
    pc,               \* the position of the program
    searcher,         \* "unset", "ok" or "none" (a falsy searcher)
    output_writer,    \* "unset", "created", "open" or "closed"
    nread,            \* the number of pairs taken from query_iterator
    ticks,            \* the progress bar's count
    index,            \* the loop variables of line 90
    topic_id,
    text,
    batch_topics,     \* the accumulator
    batch_topic_ids,
    results,          \* the mapping batch_search returned, then the pairs to write
    written,          \* the number of pairs of results already written
    sink,             \* the life of the output: "open", each "write", "closed"
    calls,            \* the calls of searcher.search and searcher.batch_search
    error,            \* the exception that is propagating, or "none"
    exit_code         \* the exit status of the process, NoExit while it runs

vars == <<args, order, topics, pc, searcher, output_writer, nread, ticks, index,
          topic_id, text, batch_topics, batch_topic_ids, results, written, sink,
          calls, error, exit_code>>

config == <<args, order, topics>>
loopvars == <<index, topic_id, text>>
batch == <<batch_topics, batch_topic_ids>>

NoExit == -1
NoId == StrId("")

\* What the sink was handed by output_writer.write, in order.
Written == SelectSeq(sink, LAMBDA e : e.op = "write")

\* The topic source of a run: the keys of a topics dict in iteration order.
Sources == InjectiveSeqs(TopicIds, MaxTopics)

\* The state before line 56: the arguments are parsed, the query iterator
\* yields the topics of ids, in that order, and its topics dict has the keys.
Start(ids, keys) ==
    /\ args \in [batch_size : 1..MaxBatchSize, threads : 1..MaxThreads,
                 hits : 0..MaxHits, rho : {DefaultRho}]
    /\ order = [i \in DOMAIN ids |-> <<ids[i], TopicText(ids[i])>>]
    /\ topics = [id \in keys |-> TopicText(id)]
    /\ pc = "load"
    /\ searcher = "unset"
    /\ output_writer = "unset"
    /\ nread = 0
    /\ ticks = 0
    /\ index = 0
    /\ topic_id = NoId
    /\ text = ""
    /\ batch_topics = <<>>
    /\ batch_topic_ids = <<>>
    /\ results = <<>>
    /\ written = 0
    /\ sink = <<>>
    /\ calls = <<>>
    /\ error = "none"
    /\ exit_code = NoExit

Init == \E ids \in Sources : Start(ids, Range(ids))

\* ------------------------------------------------- lines 56-62: the index
\* JASSv2Searcher(...) or from_prebuilt_index(...) returns a searcher.
LoadIndexOk ==
    /\ pc = "load"
    /\ searcher' = "ok"
    /\ pc' = "check"
    /\ UNCHANGED <<config, output_writer, nread, ticks, loopvars, batch, results,
                   written, sink, calls, error, exit_code>>

\* from_prebuilt_index(...) returns no searcher.
LoadIndexNone ==
    /\ pc = "load"
    /\ searcher' = "none"
    /\ pc' = "check"
    /\ UNCHANGED <<config, output_writer, nread, ticks, loopvars, batch, results,
                   written, sink, calls, error, exit_code>>

\* The construction raises: the exception ends the process with status 1.
LoadIndexRaise ==
    /\ pc = "load"
    /\ error' = "index"
    /\ exit_code' = 1
    /\ pc' = "exited"
    /\ UNCHANGED <<config, searcher, output_writer, nread, ticks, loopvars, batch,
                   results, written, sink, calls>>

\* The status of a process ended by exit(code): exit() is exit(None), status 0.
ExitStatus(code) == IF code = "None" THEN 0 ELSE 1

\* Variant of the check: the searcher is not tested.
CheckSearcherMissing ==
    /\ pc = "check"
    /\ pc' = "writer"
    /\ UNCHANGED <<config, searcher, output_writer, nread, ticks, loopvars, batch,
                   results, written, sink, calls, error, exit_code>>

\* if not searcher: exit()
CheckSearcher ==
    /\ pc = "check"
    /\ IF searcher = "none"
          THEN /\ exit_code' = ExitStatus("None")
               /\ pc' = "exited"
          ELSE /\ exit_code' = exit_code
               /\ pc' = "writer"
    /\ UNCHANGED <<config, searcher, output_writer, nread, ticks, loopvars, batch,
                   results, written, sink, calls, error>>

\* ------------------------------------------ lines 84-89: the output writer
\* What entering and leaving the writer's scope do to the output file.
OutputWriterEnter == "open"
OutputWriterExit == "closed"

GetOutputWriter ==
    /\ pc = "writer"
    /\ output_writer' = "created"
    /\ pc' = "with"
    /\ UNCHANGED <<config, searcher, nread, ticks, loopvars, batch, results,
                   written, sink, calls, error, exit_code>>

\* with output_writer: the writer is opened, the accumulator starts empty.
EnterWith ==
    /\ pc = "with"
    /\ output_writer' = OutputWriterEnter
    /\ sink' = Append(sink, [op |-> OutputWriterEnter])
    /\ batch_topics' = <<>>
    /\ batch_topic_ids' = <<>>
    /\ pc' = "for"
    /\ UNCHANGED <<config, searcher, nread, ticks, loopvars, results, written,
                   calls, error, exit_code>>

\* ------------------------------------------------ lines 90-111: the loop
\* len(topics.keys())
TopicCount == Cardinality(DOMAIN topics)

\* tqdm counts an item when the loop comes back for the next one.
Tick == IF nread > 0 THEN ticks + 1 ELSE ticks

\* The loop comes back to tqdm: the item it yielded last is counted, before the
\* next one is taken from query_iterator.
TqdmUpdate ==
    /\ pc = "for"
    /\ ticks' = Tick
    /\ pc' = "next"
    /\ UNCHANGED <<config, searcher, output_writer, nread, loopvars, batch, results,
                   written, sink, calls, error, exit_code>>

\* for index, (topic_id, text) in enumerate(tqdm(query_iterator, ...)): next pair.
ForNext ==
    /\ pc = "next"
    /\ nread < Len(order)
    /\ index' = nread
    /\ topic_id' = order[nread + 1][1]
    /\ text' = order[nread + 1][2]
    /\ nread' = nread + 1
    /\ pc' = "body"
    /\ UNCHANGED <<config, searcher, output_writer, ticks, batch, results, written,
                   sink, calls, error, exit_code>>

\* Variant of the end of the loop: what the accumulator holds is flushed after
\* the loop, whatever it holds.
ForEndFlush ==
    /\ pc = "next"
    /\ nread = Len(order)
    /\ calls' = IF args.batch_size <= 1 /\ args.threads <= 1
                   THEN calls
                   ELSE Append(calls, [op |-> "batch_search", ok |-> TRUE,
                                       texts |-> batch_topics, ids |-> batch_topic_ids,
                                       k |-> args.hits, rho |-> args.rho,
                                       threads |-> args.threads, ret |-> <<>>])
    /\ pc' = "exit_with"
    /\ UNCHANGED <<config, searcher, output_writer, nread, ticks, loopvars, batch,
                   results, written, sink, error, exit_code>>

\* The iterator is exhausted: the loop and the with block end.
ForEnd ==
    /\ pc = "next"
    /\ nread = Len(order)
    /\ pc' = "exit_with"
    /\ UNCHANGED <<config, searcher, output_writer, nread, ticks, loopvars, batch,
                   results, written, sink, calls, error, exit_code>>

\* Variant of the mode test: one of the two conditions is enough.
SingleModeOr == args.batch_size <= 1 \/ args.threads <= 1

\* if args.batch_size <= 1 and args.threads <= 1
SingleMode == args.batch_size <= 1 /\ args.threads <= 1

\* Variant of the result cap: rho in the place of hits.
HitsArgSwapped == args.rho

\* The result cap handed to the searcher.
HitsArg == args.hits

SearchCall(ok, ret) ==
    [op |-> "search", ok |-> ok, texts |-> <<text>>, ids |-> <<>>, k |-> HitsArg,
     rho |-> args.rho, threads |-> 1, ret |-> ret]

\* hits = searcher.search(text, args.hits, args.rho); results = [(topic_id, hits)]
SearchOk ==
    /\ pc = "body"
    /\ SingleMode
    /\ LET hits == Search(text, HitsArg, args.rho)
       IN  /\ calls' = Append(calls, SearchCall(TRUE, <<hits>>))
           /\ results' = <<<<topic_id, hits>>>>
    /\ written' = 0
    /\ pc' = "write"
    /\ UNCHANGED <<config, searcher, output_writer, nread, ticks, loopvars, batch,
                   sink, error, exit_code>>

\* Variant of a failing search: the topic is skipped and the loop goes on.
SearchRaiseSkip ==
    /\ pc = "body"
    /\ args.batch_size <= 1 /\ args.threads <= 1
    /\ calls' = Append(calls, [op |-> "search", ok |-> FALSE, texts |-> <<text>>,
                               ids |-> <<>>, k |-> args.hits, rho |-> args.rho,
                               threads |-> 1, ret |-> <<>>])
    /\ error' = "search"
    /\ pc' = "for"
    /\ UNCHANGED <<config, searcher, output_writer, nread, ticks, loopvars, batch,
                   results, written, sink, exit_code>>

\* searcher.search raises.
SearchRaise ==
    /\ pc = "body"
    /\ SingleMode
    /\ calls' = Append(calls, SearchCall(FALSE, <<>>))
    /\ error' = "search"
    /\ pc' = "exit_with"
    /\ UNCHANGED <<config, searcher, output_writer, nread, ticks, loopvars, batch,
                   results, written, sink, exit_code>>

\* batch_topic_ids.append(str(topic_id)); batch_topics.append(text)
Accumulate ==
    /\ pc = "body"
    /\ ~SingleMode
    /\ batch_topic_ids' = Append(batch_topic_ids, Str(topic_id))
    /\ batch_topics' = Append(batch_topics, text)
    /\ pc' = "boundary"
    /\ UNCHANGED <<config, searcher, output_writer, nread, ticks, loopvars, results,
                   written, sink, calls, error, exit_code>>

\* Variants of the boundary test: without the end-of-stream clause, with the
\* batch counted from the index instead of from index + 1, and without the
\* batch-size clause.
AtBoundaryNoTail == (index + 1) % args.batch_size = 0

AtBoundaryOnlyTail == index = TopicCount - 1

AtBoundaryFromIndex ==
    \/ index % args.batch_size = 0
    \/ index = TopicCount - 1

\* (index + 1) % args.batch_size == 0 or index == len(topics.keys()) - 1
AtBoundary ==
    \/ (index + 1) % args.batch_size = 0
    \/ index = TopicCount - 1

\* Variant of continue: the loop goes on without the progress bar counting.
ContinueNoTick ==
    /\ pc = "boundary"
    /\ ~((index + 1) % args.batch_size = 0 \/ index = TopicCount - 1)
    /\ pc' = "next"
    /\ UNCHANGED <<config, searcher, output_writer, nread, ticks, loopvars, batch,
                   results, written, sink, calls, error, exit_code>>

\* else: continue
Continue ==
    /\ pc = "boundary"
    /\ ~AtBoundary
    /\ pc' = "for"
    /\ UNCHANGED <<config, searcher, output_writer, nread, ticks, loopvars, batch,
                   results, written, sink, calls, error, exit_code>>

\* Variant of the re-projection: the mapping's items in its own key order.
NativeOrder(mapping, ids) ==
    [i \in DOMAIN mapping |-> <<mapping[i][1], mapping[i][2]>>]

\* [(id_, results[id_]) for id_ in batch_topic_ids]
Reproject(mapping, ids) == [i \in DOMAIN ids |-> <<ids[i], Lookup(mapping, ids[i])>>]

BatchSearchCall(ok, ret) ==
    [op |-> "batch_search", ok |-> ok, texts |-> batch_topics,
     ids |-> batch_topic_ids, k |-> HitsArg, rho |-> args.rho,
     threads |-> args.threads, ret |-> ret]

\* results = searcher.batch_search(batch_topics, batch_topic_ids, args.hits,
\*                                 args.rho, args.threads)
BatchSearchOk ==
    /\ pc = "boundary"
    /\ AtBoundary
    /\ \E mapping \in BatchSearch(batch_topics, batch_topic_ids, HitsArg, args.rho,
                                  args.threads) :
          /\ calls' = Append(calls, BatchSearchCall(TRUE, <<Entries(mapping)>>))
          /\ results' = mapping
    /\ pc' = "reproject"
    /\ UNCHANGED <<config, searcher, output_writer, nread, ticks, loopvars, batch,
                   written, sink, error, exit_code>>

\* Variant of the re-projection step: batch_topics is not cleared.
ReprojectResultsKeepTexts ==
    /\ pc = "reproject"
    /\ results' = [i \in DOMAIN batch_topic_ids |->
                      <<batch_topic_ids[i], Lookup(results, batch_topic_ids[i])>>]
    /\ batch_topic_ids' = <<>>
    /\ written' = 0
    /\ pc' = "write"
    /\ UNCHANGED <<config, searcher, output_writer, nread, ticks, loopvars,
                   batch_topics, sink, calls, error, exit_code>>

\* results = [(id_, results[id_]) for id_ in batch_topic_ids]; both lists cleared.
ReprojectResults ==
    /\ pc = "reproject"
    /\ results' = Reproject(results, batch_topic_ids)
    /\ batch_topic_ids' = <<>>
    /\ batch_topics' = <<>>
    /\ written' = 0
    /\ pc' = "write"
    /\ UNCHANGED <<config, searcher, output_writer, nread, ticks, loopvars, sink,
                   calls, error, exit_code>>

\* Variant of a failing batch_search: the batch is dropped and the loop goes on.
BatchSearchRaiseSkip ==
    /\ pc = "boundary"
    /\ (index + 1) % args.batch_size = 0 \/ index = TopicCount - 1
    /\ calls' = Append(calls, [op |-> "batch_search", ok |-> FALSE,
                               texts |-> batch_topics, ids |-> batch_topic_ids,
                               k |-> args.hits, rho |-> args.rho,
                               threads |-> args.threads, ret |-> <<>>])
    /\ error' = "batch_search"
    /\ batch_topic_ids' = <<>>
    /\ batch_topics' = <<>>
    /\ pc' = "for"
    /\ UNCHANGED <<config, searcher, output_writer, nread, ticks, loopvars, results,
                   written, sink, exit_code>>

\* searcher.batch_search raises.
BatchSearchRaise ==
    /\ pc = "boundary"
    /\ AtBoundary
    /\ calls' = Append(calls, BatchSearchCall(FALSE, <<>>))
    /\ error' = "batch_search"
    /\ pc' = "exit_with"
    /\ UNCHANGED <<config, searcher, output_writer, nread, ticks, loopvars, batch,
                   results, written, sink, exit_code>>

\* for topic, hits in results: output_writer.write(topic, hits)
WriteOk ==
    /\ pc = "write"
    /\ written < Len(results)
    /\ sink' = Append(sink, [op |-> "write", topic |-> results[written + 1][1],
                             hits |-> results[written + 1][2]])
    /\ written' = written + 1
    /\ UNCHANGED <<config, pc, searcher, output_writer, nread, ticks, loopvars, batch,
                   results, calls, error, exit_code>>

\* output_writer.write raises.
WriteRaise ==
    /\ pc = "write"
    /\ written < Len(results)
    /\ error' = "write"
    /\ pc' = "exit_with"
    /\ UNCHANGED <<config, searcher, output_writer, nread, ticks, loopvars, batch,
                   results, written, sink, calls, exit_code>>

\* results.clear()
ClearResults ==
    /\ pc = "write"
    /\ written = Len(results)
    /\ results' = <<>>
    /\ written' = 0
    /\ pc' = "for"
    /\ UNCHANGED <<config, searcher, output_writer, nread, ticks, loopvars, batch,
                   sink, calls, error, exit_code>>

\* Variant of leaving the block: the writer is closed at the end of the block
\* only, not when an exception leaves it.
ExitWithNoFinally ==
    /\ pc = "exit_with"
    /\ output_writer' = IF error = "none" THEN OutputWriterExit ELSE output_writer
    /\ sink' = IF error = "none" THEN Append(sink, [op |-> OutputWriterExit]) ELSE sink
    /\ exit_code' = IF error = "none" THEN 0 ELSE 1
    /\ pc' = "exited"
    /\ UNCHANGED <<config, searcher, nread, ticks, loopvars, batch, results, written,
                   calls, error>>

\* The with block is left, normally or by an exception: the writer is closed,
\* and the process ends, with status 1 when an exception propagates.
ExitWith ==
    /\ pc = "exit_with"
    /\ output_writer' = OutputWriterExit
    /\ sink' = Append(sink, [op |-> OutputWriterExit])
    /\ exit_code' = IF error = "none" THEN 0 ELSE 1
    /\ pc' = "exited"
    /\ UNCHANGED <<config, searcher, nread, ticks, loopvars, batch, results, written,
                   calls, error>>

Next ==
    \/ LoadIndexOk
    \/ LoadIndexNone
    \/ LoadIndexRaise
    \/ CheckSearcher
    \/ GetOutputWriter
    \/ EnterWith
    \/ TqdmUpdate
    \/ ForNext
    \/ ForEnd
    \/ SearchOk
    \/ SearchRaise
    \/ Accumulate
    \/ Continue
    \/ BatchSearchOk
    \/ ReprojectResults
    \/ BatchSearchRaise
    \/ WriteOk
    \/ WriteRaise
    \/ ClearResults
    \/ ExitWith

Spec == Init /\ [][Next]_vars

\* A topic source whose topics dict holds keys the iterator does not yield: the
\* order given to the iterator covers a part of the keys only, so that
\* len(topics.keys()) is above the number of pairs yielded.
InitSkew ==
    \E ids \in Sources :
        \E extra \in SUBSET (TopicIds \ Range(ids)) : Start(ids, Range(ids) \cup extra)

SpecSkew == InitSkew /\ [][Next]_vars

\* The backend and the sink always return: no search, batch_search or write
\* raises. Every step of the one thread of the program is taken.
NextReturning ==
    \/ LoadIndexOk
    \/ LoadIndexNone
    \/ LoadIndexRaise
    \/ CheckSearcher
    \/ GetOutputWriter
    \/ EnterWith
    \/ TqdmUpdate
    \/ ForNext
    \/ ForEnd
    \/ SearchOk
    \/ Accumulate
    \/ Continue
    \/ BatchSearchOk
    \/ ReprojectResults
    \/ WriteOk
    \/ ClearResults
    \/ ExitWith

\* The sources that yield their topics in one fixed order of the keys.
KeyOrder == <<IntId(1), IntId(2), StrId("1"), IntId(30), StrId("q")>>

SortedSources ==
    {ids \in Sources :
        \A i, j \in DOMAIN ids :
            i < j => \E p, q \in DOMAIN KeyOrder :
                        p < q /\ KeyOrder[p] = ids[i] /\ KeyOrder[q] = ids[j]}

InitSorted == \E ids \in SortedSources : Start(ids, Range(ids))

SpecReturning == InitSorted /\ [][NextReturning]_vars /\ WF_vars(NextReturning)

\* ----------------------------------------------------------------- claims
\* The run went through the whole with block and no exception was raised.
Completed == pc = "exited" /\ searcher = "ok" /\ error = "none"

\* The ids of the topic source, in its order.
SourceIds == [i \in DOMAIN order |-> order[i][1]]

\* The ids handed to output_writer.write, in order.
WrittenIds == [i \in DOMAIN Written |-> Written[i].topic]

\* The number of positions of the sequence s that hold x.
Count(s, x) == Cardinality({i \in DOMAIN s : s[i] = x})

StrIds(s) == [i \in DOMAIN s |-> Str(s[i])]

CeilDiv(n, b) == (n + b - 1) \div b

\* The text Python's str() gives for each id of TopicIds.
StringForm(id) ==
    CASE id.kind = "str" -> id.v
      [] id = IntId(1) -> "1"
      [] id = IntId(2) -> "2"
      [] id = IntId(30) -> "30"

\* C1: a run that completes without error has written exactly once for each
\* topic of the source: as many writes as topics, and every topic written as
\* often as the source holds it, which is once (in batch mode a topic is
\* written under the string form of its id).
C1_ExactlyOnce ==
    Completed =>
        /\ Len(Written) = Len(order)
        /\ SingleMode =>
              \A i \in DOMAIN order : Count(WrittenIds, SourceIds[i]) = 1
        /\ ~SingleMode =>
              \A i \in DOMAIN order :
                  Count(StrIds(WrittenIds), Str(SourceIds[i]))
                      = Count(StrIds(SourceIds), Str(SourceIds[i]))

\* A completed batch-mode run whose last batch is a partial one.
C1_Witness ==
    /\ Completed
    /\ ~SingleMode
    /\ Len(order) = 5
    /\ args.batch_size = 3
    /\ Len(Written) = 5

\* C2 as stated: in batch mode with batch size above 1 the ids written are at
\* every moment a prefix of the source's order, and the whole order once the
\* run has completed.
C2_SourceOrder ==
    (~SingleMode /\ args.batch_size > 1) =>
        /\ Len(Written) <= Len(order)
        /\ \A i \in DOMAIN Written : WrittenIds[i] = SourceIds[i]
        /\ Completed => Len(Written) = Len(order)

\* C2, amended: in batch mode with batch size above 1, for every key order of
\* the returned mapping, the ids written are at every moment the string forms
\* of a prefix of the source's order, and of the whole order once the run has
\* completed.
C2_SourceOrderAsStrings ==
    (~SingleMode /\ args.batch_size > 1) =>
        /\ Len(Written) <= Len(order)
        /\ \A i \in DOMAIN Written : WrittenIds[i] = StrId(StringForm(SourceIds[i]))
        /\ Completed => Len(Written) = Len(order)

\* A batch of several topics came back with its keys in another order than the
\* batch was submitted in.
C2_Witness ==
    /\ pc = "reproject"
    /\ args.batch_size > 1
    /\ Len(batch_topic_ids) > 1
    /\ [i \in DOMAIN results |-> results[i][1]] # batch_topic_ids
    /\ Len(Written) > 0
    /\ SourceIds[1].kind = "int"
    /\ WrittenIds[1].kind = "str"

\* The sizes of the batches handed to batch_search so far.
BatchSizes == [j \in DOMAIN calls |-> Len(calls[j].texts)]

\* C3: batch mode over N >= 1 topics calls batch_search ceil(N/b) times, with b
\* queries in every call but the last and the rest in the last, and never with
\* an empty batch.
C3_BatchCount ==
    ~SingleMode =>
        /\ \A j \in DOMAIN calls :
              /\ calls[j].op = "batch_search"
              /\ Len(calls[j].texts) >= 1
              /\ Len(calls[j].ids) = Len(calls[j].texts)
        /\ (Completed /\ Len(order) >= 1) =>
              LET n == Len(order)
                  b == args.batch_size
                  c == CeilDiv(n, b)
              IN  /\ Len(calls) = c
                  /\ \A j \in 1..(c - 1) : BatchSizes[j] = b
                  /\ BatchSizes[c] = n - b * (c - 1)

\* Five topics in batches of three: batches of sizes 3 and 2, both written.
C3_Witness ==
    /\ Completed
    /\ ~SingleMode
    /\ Len(order) = 5
    /\ args.batch_size = 3
    /\ BatchSizes = <<3, 2>>
    /\ Len(Written) = 5

\* What single mode hands the sink for the whole source: each topic's id with
\* the hits of searching its text.
SingleOutput ==
    [i \in DOMAIN order |->
        [op |-> "write", topic |-> order[i][1],
         hits |-> Search(order[i][2], args.hits, args.rho)]]

\* C4 as stated: every completed run, in single mode and in batch mode alike,
\* has handed the sink the sequence of (topic_id, hit list) pairs single mode
\* produces.
C4_SameOutput == Completed => Written = SingleOutput

\* C5: in single mode, once search has raised on the k-th query the run is
\* aborting or has aborted with k topics read, k searches made, the first k-1
\* of them successful and their results, and nothing else, written in order.
C5_SingleAbort ==
    error = "search" =>
        LET k == Len(calls)
        IN  /\ SingleMode
            /\ pc \in {"exit_with", "exited"}
            /\ pc = "exited" => exit_code = 1
            /\ k >= 1
            /\ nread = k
            /\ \A j \in 1..k :
                  /\ calls[j].op = "search"
                  /\ calls[j].texts = <<order[j][2]>>
                  /\ calls[j].ok <=> j < k
            /\ Written = SubSeq(SingleOutput, 1, k - 1)

\* The search of the second of five topics raised: one result was written.
C5_Witness ==
    /\ error = "search"
    /\ pc = "exited"
    /\ Len(order) = 5
    /\ Len(calls) = 2
    /\ Len(Written) = 1

\* C6: over an empty source no backend call and no write is ever made, nothing
\* fails once the index is loaded, and the run ends normally with the output
\* opened and then closed and nothing in between.
C6_EmptySource ==
    Len(order) = 0 =>
        /\ calls = <<>>
        /\ Written = <<>>
        /\ error \in {"none", "index"}
        /\ (pc = "exited" /\ searcher = "ok") =>
              /\ Completed
              /\ exit_code = 0
              /\ output_writer = "closed"
              /\ sink = <<[op |-> "open"], [op |-> "closed"]>>

\* A batch-mode run over no topic has ended.
C6_Witness ==
    /\ Len(order) = 0
    /\ ~SingleMode
    /\ Completed
    /\ Len(sink) = 2

\* The output was opened at some point.
Opened == \E i \in DOMAIN sink : sink[i].op = "open"

\* C7: a run that opened the sink never ends with it open: when the process
\* has exited the writer is closed and closing it was the last thing done to
\* the output, however the run ended.
C7_ClosedOnExit ==
    (pc = "exited" /\ Opened) =>
        /\ output_writer = "closed"
        /\ sink[Len(sink)].op = "closed"
        /\ Cardinality({i \in DOMAIN sink : sink[i].op = "closed"}) = 1

\* A run ended by the failure of its first write, or by a failing batch_search
\* after two writes: the process has exited and the writer is closed.
C7_Witness ==
    /\ pc = "exited"
    /\ output_writer = "closed"
    /\ \/ error = "write" /\ Written = <<>>
       \/ error = "batch_search" /\ Len(Written) = 2

\* C8: when no searcher is obtained (the construction raised or returned none)
\* the run ends at the check, with no output writer created or opened, no
\* write, no topic read and no backend call.
C8_NoOutputWithoutIndex ==
    (error = "index" \/ searcher = "none") =>
        /\ pc \in {"check", "exited"}
        /\ output_writer = "unset"
        /\ sink = <<>>
        /\ calls = <<>>
        /\ nread = 0

\* The process has exited at the check of a falsy searcher.
C8_Witness ==
    /\ searcher = "none"
    /\ pc = "exited"
    /\ Len(order) > 0

\* C9: a run that obtained no searcher ends with a non-zero exit status.
C9_NonZeroExit ==
    (pc = "exited" /\ searcher # "ok") => exit_code # 0

\* The backend call whose result the i-th write comes from.
CallOf(i) == IF SingleMode THEN i ELSE CeilDiv(i, args.batch_size)

\* C10: every backend call carries the configured cap, and every hit list
\* written is the one its call returned, unmodified, so of length at most the
\* cap.
C10_ResultCap ==
    /\ \A j \in DOMAIN calls : calls[j].k = args.hits
    /\ \A i \in DOMAIN Written :
          LET c == calls[CallOf(i)]
          IN  /\ Len(Written[i].hits) <= args.hits
              /\ c.ok
              /\ IF c.op = "search"
                    THEN Written[i].hits = c.ret[1]
                    ELSE /\ Written[i].topic \in DOMAIN c.ret[1]
                         /\ Written[i].hits = c.ret[1][Written[i].topic]

\* A batch-mode run with cap 2 wrote two hits for a query the index ranks three
\* documents for.
C10_Witness ==
    /\ ~SingleMode
    /\ args.hits = 2
    /\ \E i \in DOMAIN Written :
          /\ Len(Written[i].hits) = 2
          /\ Len(Ranking(order[i][2])) = 3

\* C11: in batch mode, whatever count the topics dict reports, the batch is
\* executed when the last topic the source yields has been appended: a run
\* that completes leaves nothing in the accumulator and has handed every topic
\* read to batch_search.
C11_TailExecuted ==
    (Completed /\ ~SingleMode) =>
        /\ batch_topic_ids = <<>>
        /\ batch_topics = <<>>
        /\ Len(Written) = Len(order)

\* C12: the mode is fixed by the configuration. With batch_size <= 1 and
\* threads <= 1 every backend call is a search, one per topic read, each with
\* the text of its topic; otherwise (batch_size = 1 with threads > 1 included)
\* every backend call is a batch_search.
C12_ModeFixed ==
    IF args.batch_size <= 1 /\ args.threads <= 1
       THEN /\ \A j \in DOMAIN calls :
                  calls[j].op = "search" /\ calls[j].texts = <<order[j][2]>>
            /\ Len(calls) <= nread
            /\ pc \in {"for", "next", "write"} => Len(calls) = nread
            /\ Completed => Len(calls) = Len(order)
       ELSE \A j \in DOMAIN calls : calls[j].op = "batch_search"

\* A completed run with batch_size = 1 and threads = 2 over three topics: three
\* backend calls were made.
C12_Witness ==
    /\ Completed
    /\ args.batch_size = 1
    /\ args.threads = 2
    /\ Len(order) = 3
    /\ Len(calls) = 3

\* C13: in batch mode with batch size b, once batch_search has raised on the
\* j-th batch the run is aborting or has aborted: the j-1 earlier calls
\* succeeded, exactly their (j-1)*b results are written, in source order, the
\* failing batch is the last call made and is still in the accumulator, and
\* no topic beyond it has been read.
C13_BatchAbort ==
    error = "batch_search" =>
        LET j == Len(calls)
            b == args.batch_size
        IN  /\ pc \in {"exit_with", "exited"}
            /\ pc = "exited" => exit_code = 1
            /\ j >= 1
            /\ \A i \in 1..j : calls[i].op = "batch_search" /\ (calls[i].ok <=> i < j)
            /\ Len(Written) = (j - 1) * b
            /\ \A i \in DOMAIN Written :
                  /\ Written[i].topic = calls[CeilDiv(i, b)].ids[i - b * (CeilDiv(i, b) - 1)]
                  /\ Written[i].topic = StrId(StringForm(SourceIds[i]))
            /\ nread = (j - 1) * b + Len(calls[j].ids)
            /\ calls[j].ids = batch_topic_ids
            /\ calls[j].texts = [p \in 1..Len(calls[j].ids) |-> order[(j - 1) * b + p][2]]

\* Five topics in batches of two: the second batch_search raised, the two
\* results of the first batch are all that was written.
C13_Witness ==
    /\ error = "batch_search"
    /\ pc = "exited"
    /\ Len(order) = 5
    /\ args.batch_size = 2
    /\ Len(calls) = 2
    /\ Len(Written) = 2
    /\ nread = 4

\* The position in the source of the p-th topic of the j-th batch.
SourcePos(j, p) == (j - 1) * args.batch_size + p

\* Every batch_search call carries the texts and the ids of its topics, in
\* source order, the i-th id being the string form of the id of the topic
\* whose text is i-th.
Aligned ==
    \A j \in DOMAIN calls :
        /\ Len(calls[j].ids) = Len(calls[j].texts)
        /\ \A p \in DOMAIN calls[j].ids :
              /\ SourcePos(j, p) \in DOMAIN order
              /\ calls[j].ids[p] = StrId(StringForm(SourceIds[SourcePos(j, p)]))
              /\ calls[j].texts[p] = order[SourcePos(j, p)][2]

\* Every write carries the id its topic was submitted under and the entry the
\* mapping returned by the call of its batch holds under that id.
FromOwnCall ==
    \A i \in DOMAIN Written :
        LET j == CeilDiv(i, args.batch_size)
            p == i - (j - 1) * args.batch_size
        IN  /\ j \in DOMAIN calls
            /\ calls[j].ok
            /\ p \in DOMAIN calls[j].ids
            /\ Written[i].topic = calls[j].ids[p]
            /\ Written[i].hits = calls[j].ret[1][calls[j].ids[p]]

\* C14 as stated: in batch mode the calls are aligned, every write carries the
\* entry of its own call, and that entry is the hit list of the topic's own
\* text: no topic receives the hits of another topic.
C14_OwnHits ==
    ~SingleMode =>
        /\ Aligned
        /\ FromOwnCall
        /\ \A i \in DOMAIN Written :
              Written[i].hits = Search(order[i][2], args.hits, args.rho)

\* C15: results are streamed. Whenever the loop is about to take a topic from
\* the source, and whenever a backend call is about to start, every result
\* of the earlier batches (single mode: of the earlier topics) is written:
\* the topics read are the topics written plus those in the accumulator, the
\* current one included once it is appended. So the topics read and not yet
\* written never number more than batch_size.
C15_Streamed ==
    /\ nread - Len(Written) <= args.batch_size
    /\ pc \in {"for", "next"} =>
          /\ nread = Len(Written) + Len(batch_topic_ids)
          /\ args.batch_size <= 1 /\ args.threads <= 1 => nread = Len(Written)
    /\ pc = "body" => nread = Len(Written) + Len(batch_topic_ids) + 1
    /\ pc = "boundary" => nread = Len(Written) + Len(batch_topic_ids)
    /\ \A j \in DOMAIN calls :
          Len(Written) >= IF calls[j].op = "search"
                             THEN j - 1
                             ELSE (j - 1) * args.batch_size

\* The second batch of two topics has been searched and is not written yet:
\* two topics are read and unwritten, the first batch is written.
C15_Witness ==
    /\ pc = "reproject"
    /\ args.batch_size = 2
    /\ Len(calls) = 2
    /\ Len(Written) = 2
    /\ nread = 4

\* The run has ended; when it had a searcher the source is exhausted, the
\* accumulator is empty and every topic has been searched and written.
Terminal ==
    /\ pc = "exited"
    /\ searcher = "ok" =>
          /\ error = "none"
          /\ nread = Len(order)
          /\ batch_topics = <<>>
          /\ batch_topic_ids = <<>>
          /\ Len(Written) = Len(order)
          /\ output_writer = "closed"
          /\ \A j \in DOMAIN calls : calls[j].ok
          /\ ~(args.batch_size <= 1 /\ args.threads <= 1) =>
                Len(calls) = CeilDiv(Len(order), args.batch_size)

\* C16: with a backend and a sink whose calls always return, every run
\* eventually reaches its terminal state.
C16_Terminates == <>Terminal

\* A batch-mode run over four topics in batches of three has ended, the last
\* batch a partial one.
C16_Witness ==
    /\ Terminal
    /\ searcher = "ok"
    /\ Len(order) = 4
    /\ args.batch_size = 3
    /\ Len(calls) = 2


\* ---------------------------------------------------------------- C17
\* The loop has finished an iteration and the progress bar has counted it.
IterationDone == pc = "next" /\ searcher = "ok"

\* C17: progress advances by one tick per topic read from the source, whatever
\* the batch boundaries: after each loop iteration the ticks equal the topics
\* read, which equal the sink writes plus the accumulator size (a topic that was
\* only appended to the accumulator has its tick), and on normal completion the
\* ticks equal the number of topics of the source.
C17_TickPerTopic ==
    /\ IterationDone =>
          /\ ticks = nread
          /\ nread = Len(Written) + Len(batch_topic_ids)
          /\ Len(batch_topics) = Len(batch_topic_ids)
    /\ Completed => ticks = Len(order)
    /\ ticks <= nread
    /\ nread <= ticks + 1

\* Batch mode: two topics were read and only appended, no backend call was
\* made and nothing is written, and both have their tick.
C17_Witness ==
    /\ IterationDone
    /\ ~SingleMode
    /\ nread = 2
    /\ ticks = 2
    /\ Len(batch_topic_ids) = 2
    /\ calls = <<>>
    /\ Len(Written) = 0
    /\ Len(order) = 4


\* ---------------------------------------------------------------- C18
\* A topic has been fully processed: the loop is back at its head.
TopicProcessed == pc \in {"for", "next"} /\ searcher = "ok" /\ nread > 0

\* The topic just read is the first one of a new batch.
BatchStarts == pc = "body" /\ index % args.batch_size = 0

\* C18: in batch mode the accumulator's id list and text list always have the
\* same length, which never exceeds batch_size; after a topic has been fully
\* processed that length is (topics read) mod batch_size when the topic was not
\* the last one and 0 after the last one; and the accumulator is empty whenever
\* a new batch starts.
C18_Accumulator ==
    ~SingleMode =>
        /\ Len(batch_topic_ids) = Len(batch_topics)
        /\ Len(batch_topic_ids) <= args.batch_size
        /\ TopicProcessed =>
              Len(batch_topic_ids) =
                  IF nread < Len(order) THEN nread % args.batch_size ELSE 0
        /\ BatchStarts => batch_topic_ids = <<>> /\ batch_topics = <<>>

\* Batch mode with batch_size 3: the fourth of five topics has been processed
\* after one batch was executed, and the accumulator holds that one topic.
C18_Witness ==
    /\ ~SingleMode
    /\ TopicProcessed
    /\ args.batch_size = 3
    /\ Len(order) = 5
    /\ nread = 4
    /\ Len(calls) = 1
    /\ Len(batch_topic_ids) = 1
    /\ Len(batch_topics) = 1


\* ---------------------------------------------------------------- C19
\* The position of the i-th topic of the source within its batch.
PosInBatch(i) == i - args.batch_size * (CeilDiv(i, args.batch_size) - 1)

\* The id a batch-mode run uses for the i-th topic of the source.
StringId(i) == StrId(StringForm(SourceIds[i]))

\* The number of topics read that have gone through lines 95-96.
Accumulated == IF pc = "body" THEN nread - 1 ELSE nread

\* C19: in batch mode the id passed to batch_search and written to the sink for
\* a topic is the string conversion of the id read from the source, in single
\* mode the sink receives the source's id unchanged; the two modes write equal
\* ids exactly when the source's id is a string already; and two distinct source
\* ids of one batch with the same string form are both written with the one hit
\* list the mapping holds under that string.
C19_IdConversion ==
    /\ SingleMode => \A i \in DOMAIN Written : Written[i].topic = SourceIds[i]
    /\ ~SingleMode =>
          /\ \A p \in DOMAIN batch_topic_ids :
                batch_topic_ids[p] = StringId(Accumulated - Len(batch_topic_ids) + p)
          /\ \A i \in DOMAIN Written :
                LET call == calls[CeilDiv(i, args.batch_size)]
                IN  /\ call.ids[PosInBatch(i)] = StringId(i)
                    /\ Written[i].topic = StringId(i)
                    /\ Written[i].hits = call.ret[1][StringId(i)]
                    /\ (Written[i].topic = SourceIds[i]) <=> (SourceIds[i].kind = "str")
                    /\ \A q \in DOMAIN Written :
                          /\ CeilDiv(q, args.batch_size) = CeilDiv(i, args.batch_size)
                          /\ StringForm(SourceIds[q]) = StringForm(SourceIds[i])
                          => Written[q].hits = Written[i].hits

\* Batch mode: the ids 1 and "1" were read into one batch and both are written
\* under "1" with the same, non-empty hit list.
C19_Witness ==
    /\ ~SingleMode
    /\ Len(Written) >= 2
    /\ SourceIds[1] = IntId(1)
    /\ SourceIds[2] = StrId("1")
    /\ Written[1].topic = StrId("1")
    /\ Written[2].topic = StrId("1")
    /\ Written[1].hits = Written[2].hits
    /\ Written[1].hits # <<>>
    /\ DOMAIN calls[1].ret[1] = {StrId("1")}

====
